---- MODULE Spec2Model ----
(***************************************************************************)
(* A model of the DNS message codec and forwarding server of src/main.cpp: *)
(* DNSHeader, DNSQuestion (with its name codec), DNSAnswer, DNSMessage,    *)
(* forwardQuery and the receive loop of main.                              *)
(*                                                                         *)
(* Bytes are the integers 0..255, a std::string or a byte vector is a      *)
(* sequence of bytes, and C++ offsets (from 0) index TLA+ sequences (from  *)
(* 1) through At.                                                          *)
(***************************************************************************)
EXTENDS Integers, Sequences, FiniteSets, TLC

VARIABLES
    \* ---- main and forwardQuery
    resolverIp,        \* "" when no --resolver was given
    udpSocket,         \* "open" from bind to the close(udpSocket) after the loop
    pc,                \* where main is: "recvfrom" (blocked in the recvfrom of
                       \* the loop), "questions" (at the head of the loop over
                       \* requestQuestions), "resolver" (blocked in the
                       \* recvfrom of forwardQuery), "sent" (after the
                       \* sendto of the response), "hung" (inside a loop
                       \* that never ends), "crashed", "exited"
    buffer,            \* char buffer[512] of main
    bytesRead,         \* what the last recvfrom of main returned
    requestHeader,     \* DNSHeader requestHeader
    requestQuestions,  \* std::vector<DNSQuestion> requestQuestions
    response,          \* DNSMessage response
    qi,                \* 1 + the number of requestQuestions handled so far
    forwardRequest,    \* DNSMessage forwardRequest of forwardQuery
    forwardSocket,     \* "open" between socket() and close() in forwardQuery
    toResolver,        \* datagrams sent to the resolver for this request
    fromResolver,      \* how each forwardQuery of this request ended: the
                       \* datagram received, or the call that failed
    toClient,          \* bytes handed to the sendto that answers the client
    sendResult,        \* what the last sendto to the client returned: "ok" |
                       \* "failed", "none" before the first
    nreq,              \* datagrams received so far
    \* ---- DNSHeader::serialize / DNSHeader::parse applied to one header
    hPc,        \* "start" | "serialized" | "parsed"
    hIn,        \* the DNSHeader handed to serialize
    hBytes,     \* the 12 bytes serialize returned
    hOut,       \* the DNSHeader parse returned
    \* ---- one call of DNSQuestion::parseDomainName(data, offset)
    nPc,        \* "encode" | "loop" | "returned" | "crashed"
    nDomain,    \* the std::string handed to encodeDomainName (<<>> if none)
    nEncoded,   \* TRUE when data is the result of encodeDomainName(nDomain)
    nMem,       \* the memory behind `data`: [bytes, beyond]
    nStart,     \* the value of `offset` at the call
    nSt,        \* the locals of parseDomainName and the caller's offset
    nFirstPtr,  \* position of the first pointer the loop followed, or -1
    nHops,      \* number of pointers the loop has followed
    nZeroAt     \* position of the zero length byte that ended the loop, or -1

hVars == <<hPc, hIn, hBytes, hOut>>
nVars == <<nPc, nDomain, nEncoded, nMem, nStart, nSt, nFirstPtr, nHops, nZeroAt>>
sVars == <<resolverIp, udpSocket, pc, buffer, bytesRead, requestHeader, requestQuestions,
           response, qi, forwardRequest, forwardSocket, toResolver,
           fromResolver, toClient, sendResult, nreq>>
vars == <<sVars, hVars, nVars>>

(***************************************************************************)
(* Fixed-width arithmetic.                                                 *)
(***************************************************************************)
Max(a, b) == IF a >= b THEN a ELSE b

\* (x >> 8) & 0xFF
HiByte(x) == (x \div 256) % 256
\* x & 0xFF
LoByte(x) == x % 256
\* (static_cast<uint16_t>(a) << 8) | b, for bytes a and b
Word(a, b) == ((a * 256) % 65536) + b

\* A uint32_t is written as the pair <<high 16 bits, low 16 bits>>.
\* (uint32_t(a) << 24) | (uint32_t(b) << 16) | (uint32_t(c) << 8) | d
Long(a, b, c, d) == <<Word(a, b), Word(c, d)>>
U32(x) == <<(x \div 65536) % 65536, x % 65536>>

\* data[i]: the byte at C++ index i of the memory m. m.bytes is the array the
\* pointer refers to; an index past its end reads whatever lies beyond it.
At(m, i) == IF i < Len(m.bytes) THEN m.bytes[i + 1] ELSE m.beyond

(***************************************************************************)
(* DNSHeader                                                               *)
(***************************************************************************)
\* DNSHeader::serialize writing every field low byte first.
DNSHeader_serialize_LowFirst(h) ==
    << LoByte(h.id), HiByte(h.id),
       LoByte(h.flags), HiByte(h.flags),
       LoByte(h.qdcount), HiByte(h.qdcount),
       LoByte(h.ancount), HiByte(h.ancount),
       LoByte(h.nscount), HiByte(h.nscount),
       LoByte(h.arcount), HiByte(h.arcount) >>

DNSHeader_serialize(h) ==
    << HiByte(h.id), LoByte(h.id),
       HiByte(h.flags), LoByte(h.flags),
       HiByte(h.qdcount), LoByte(h.qdcount),
       HiByte(h.ancount), LoByte(h.ancount),
       HiByte(h.nscount), LoByte(h.nscount),
       HiByte(h.arcount), LoByte(h.arcount) >>

DNSHeader_parse(m) ==
    [ id      |-> Word(At(m, 0), At(m, 1)),
      flags   |-> Word(At(m, 2), At(m, 3)),
      qdcount |-> Word(At(m, 4), At(m, 5)),
      ancount |-> Word(At(m, 6), At(m, 7)),
      nscount |-> Word(At(m, 8), At(m, 9)),
      arcount |-> Word(At(m, 10), At(m, 11)) ]

\* (flags >> 11) & 0x0F
getOpcode(h) == (h.flags \div 2048) % 16
\* (flags >> 8) & 0x01
getRD(h) == (h.flags \div 256) % 2

(***************************************************************************)
(* DNSQuestion::parseDomainName                                            *)
(***************************************************************************)
\* (labelLen & 0xC0) == 0xC0
IsPointer(labelLen) == (labelLen \div 64) % 4 = 3

\* The pointer target without the & 0x3F: (labelLen << 8) | data[currentPos + 1].
PointerTarget_NoMask(labelLen, second) == ((labelLen * 256) % 65536) + second

\* ((labelLen & 0x3F) << 8) | data[currentPos + 1], as a uint16_t
PointerTarget(labelLen, second) == ((labelLen % 64) * 256) + second

\* The locals of parseDomainName at its entry, for a call with offset = o.
\* hi is the highest index of data read so far (-1: none).
NameEntry(o) ==
    [ name |-> <<>>, jumped |-> FALSE, jumpOffset |-> 0, currentPos |-> o,
      offset |-> o, status |-> "loop", hi |-> -1 ]

\* The bytes data[from .. from + n - 1].
Slice(m, from, n) == [k \in 1..n |-> At(m, from + k - 1)]

\* NameStep without the if (!jumped) around the assignment to jumpOffset.
NameStep_EveryPointer(m, st) ==
    LET labelLen == At(m, st.currentPos) IN
    IF IsPointer(labelLen)
    THEN [st EXCEPT
            !.jumpOffset = st.currentPos + 2,
            !.jumped = TRUE,
            !.currentPos = PointerTarget(labelLen, At(m, st.currentPos + 1)),
            !.hi = Max(@, st.currentPos + 1)]
    ELSE IF labelLen = 0
    THEN [st EXCEPT
            !.currentPos = st.currentPos + 1,
            !.offset = IF st.jumped THEN st.jumpOffset ELSE st.currentPos + 1,
            !.status = "returned",
            !.hi = Max(@, st.currentPos)]
    ELSE [st EXCEPT
            !.name = (IF st.name # <<>> THEN st.name \o <<46>> ELSE st.name)
                       \o Slice(m, st.currentPos + 1, labelLen),
            !.currentPos = st.currentPos + 1 + labelLen,
            !.hi = Max(@, st.currentPos + labelLen)]

\* One iteration of the while (true) loop, and, when the iteration breaks out
\* of the loop, the assignment to offset that follows it.
NameStep(m, st) ==
    LET labelLen == At(m, st.currentPos) IN
    IF IsPointer(labelLen)
    THEN [st EXCEPT
            !.jumpOffset = IF st.jumped THEN @ ELSE st.currentPos + 2,
            !.jumped = TRUE,
            !.currentPos = PointerTarget(labelLen, At(m, st.currentPos + 1)),
            !.hi = Max(@, st.currentPos + 1)]
    ELSE IF labelLen = 0
    THEN [st EXCEPT
            !.currentPos = st.currentPos + 1,
            !.offset = IF st.jumped THEN st.jumpOffset ELSE st.currentPos + 1,
            !.status = "returned",
            !.hi = Max(@, st.currentPos)]
    ELSE [st EXCEPT
            !.name = (IF st.name # <<>> THEN st.name \o <<46>> ELSE st.name)
                       \o Slice(m, st.currentPos + 1, labelLen),
            !.currentPos = st.currentPos + 1 + labelLen,
            !.hi = Max(@, st.currentPos + labelLen)]

(***************************************************************************)
(* DNSQuestion::encodeDomainName                                           *)
(***************************************************************************)
\* domain.find('.', start): the least C++ index >= start holding '.', or -1
\* for std::string::npos.
Find(domain, start) ==
    LET dots == { i \in start..(Len(domain) - 1) : domain[i + 1] = 46 } IN
    IF dots = {} THEN -1
    ELSE CHOOSE i \in dots : \A j \in dots : i <= j

\* static_cast<uint8_t>(labelLen)
U8(x) == x % 256

\* The loop over the '.' separators, the last label and the final 0x00.
RECURSIVE EncodeFrom(_, _, _)
EncodeFrom(domain, start, encoded) ==
    LET pos == Find(domain, start) IN
    IF pos # -1
    THEN EncodeFrom(domain, pos + 1,
                    encoded \o <<U8(pos - start)>>
                            \o SubSeq(domain, start + 1, pos))
    ELSE IF start < Len(domain)
    THEN encoded \o <<U8(Len(domain) - start)>>
                 \o SubSeq(domain, start + 1, Len(domain)) \o <<0>>
    ELSE encoded \o <<0>>

\* encodeDomainName without the final encoded.push_back(0x00).
encodeDomainName_NoTerminator(domain) ==
    LET e == EncodeFrom(domain, 0, <<>>) IN SubSeq(e, 1, Len(e) - 1)

encodeDomainName(domain) == EncodeFrom(domain, 0, <<>>)

\* parseDomainName run to its end. The loop is deterministic in currentPos and
\* never writes to data, so it runs forever exactly when it follows the pointer
\* at some position a second time: that run is reported as "diverges".
RECURSIVE RunName(_, _, _)
RunName(m, st, followed) ==
    IF st.status # "loop" THEN st
    ELSE IF IsPointer(At(m, st.currentPos))
    THEN IF st.currentPos \in followed
         THEN [st EXCEPT !.status = "diverges"]
         ELSE RunName(m, NameStep(m, st), followed \cup {st.currentPos})
    ELSE RunName(m, NameStep(m, st), followed)

parseDomainName(m, offset) == RunName(m, NameEntry(offset), {})

(***************************************************************************)
(* DNSQuestion, DNSAnswer, DNSMessage                                      *)
(***************************************************************************)
\* The result carries the caller's offset after the call and the highest
\* index of data the call read (hi). status is "returned" or "diverges".
NoQuestion == [ name |-> <<>>, type |-> 0, qclass |-> 0 ]

DNSQuestion_parse(m, offset) ==
    LET n == parseDomainName(m, offset)
        o == n.offset
    IN IF n.status # "returned"
       THEN [ status |-> n.status, question |-> NoQuestion, offset |-> offset,
              hi |-> n.hi ]
       ELSE
       [ status   |-> n.status,
         question |-> [ name   |-> n.name,
                        type   |-> Word(At(m, o), At(m, o + 1)),
                        qclass |-> Word(At(m, o + 2), At(m, o + 3)) ],
         offset   |-> o + 4,
         hi       |-> Max(n.hi, o + 3) ]

DNSQuestion_serialize(q) ==
    encodeDomainName(q.name)
    \o <<HiByte(q.type), LoByte(q.type), HiByte(q.qclass), LoByte(q.qclass)>>

\* The placeholder record 8.8.8.8 in the place of DNSAnswer{}.
ZeroAnswer_Placeholder ==
    [ name |-> <<>>, type |-> 1, aclass |-> 1, ttl |-> U32(60),
      rdlength |-> 4, rdata |-> <<8, 8, 8, 8>> ]

\* DNSAnswer{}: every member value-initialized.
ZeroAnswer ==
    [ name |-> <<>>, type |-> 0, aclass |-> 0, ttl |-> U32(0),
      rdlength |-> 0, rdata |-> <<>> ]

\* A call that never returns has status "diverges" and no answer.
DNSAnswer_parse(m, offset) ==
    LET n == parseDomainName(m, offset)
        o == n.offset
        rdlength == Word(At(m, o + 8), At(m, o + 9))
    IN IF n.status # "returned"
       THEN [ status |-> n.status, answer |-> ZeroAnswer, offset |-> offset,
              hi |-> n.hi ]
       ELSE
       [ status |-> n.status,
         answer |-> [ name     |-> n.name,
                      type     |-> Word(At(m, o), At(m, o + 1)),
                      aclass   |-> Word(At(m, o + 2), At(m, o + 3)),
                      ttl      |-> Long(At(m, o + 4), At(m, o + 5),
                                        At(m, o + 6), At(m, o + 7)),
                      rdlength |-> rdlength,
                      rdata    |-> Slice(m, o + 10, rdlength) ],
         offset |-> o + 10 + rdlength,
         hi     |-> Max(n.hi, o + 9 + rdlength) ]

DNSAnswer_serialize(a) ==
    encodeDomainName(a.name)
    \o <<HiByte(a.type), LoByte(a.type), HiByte(a.aclass), LoByte(a.aclass)>>
    \o <<HiByte(a.ttl[1]), LoByte(a.ttl[1]),
         HiByte(a.ttl[2]), LoByte(a.ttl[2])>>
    \o <<HiByte(a.rdlength), LoByte(a.rdlength)>>
    \o a.rdata

RECURSIVE Flatten(_)
Flatten(seqs) == IF seqs = <<>> THEN <<>> ELSE seqs[1] \o Flatten(Tail(seqs))

DNSMessage_serialize(msg) ==
    DNSHeader_serialize(msg.header)
    \o Flatten([i \in 1..Len(msg.questions) |->
                    DNSQuestion_serialize(msg.questions[i])])
    \o Flatten([i \in 1..Len(msg.answers) |->
                    DNSAnswer_serialize(msg.answers[i])])

\* v.push_back(x) with x put in front instead.
push_front(v, x) == <<x>> \o v

\* v.push_back(x)
push_back(v, x) == Append(v, x)

\* for (uint16_t i = 0; i < count; i++) DNSQuestion::parse(data, offset), as in
\* main and in forwardQuery: the questions parsed, the offset and the highest
\* index read; "diverges" when one of the calls never returns.
RECURSIVE ParseQuestions(_, _, _, _, _)
ParseQuestions(m, count, offset, questions, hi) ==
    IF count = 0
    THEN [ status |-> "returned", questions |-> questions, offset |-> offset,
           hi |-> hi ]
    ELSE LET r == DNSQuestion_parse(m, offset) IN
         IF r.status # "returned"
         THEN [ status |-> "diverges", questions |-> questions,
                offset |-> offset, hi |-> Max(hi, r.hi) ]
         ELSE ParseQuestions(m, count - 1, r.offset,
                             push_back(questions, r.question), Max(hi, r.hi))

\* DNSAnswer answer; -- name and rdata are empty, the integer members are not
\* initialized and hold what the stack held, here the byte junk repeated.
DefaultAnswer(junk) ==
    [ name |-> <<>>, type |-> junk * 257, aclass |-> junk * 257,
      ttl |-> <<junk * 257, junk * 257>>, rdlength |-> junk * 257,
      rdata |-> <<>> ]

\* ParseReply without the loop that skips the questions of the reply.
ParseReply_NoSkip(m, junk) ==
    LET responseHeader == DNSHeader_parse(m)
        a == DNSAnswer_parse(m, 12)
    IN IF responseHeader.ancount > 0
       THEN [ status |-> a.status, answer |-> a.answer, hi |-> Max(11, a.hi) ]
       ELSE [ status |-> "returned", answer |-> DefaultAnswer(junk),
              hi |-> 11 ]

\* forwardQuery from the parse of the response header to its return.
ParseReply(m, junk) ==
    LET responseHeader == DNSHeader_parse(m)
        qs == ParseQuestions(m, responseHeader.qdcount, 12, <<>>, 11)
        a == DNSAnswer_parse(m, qs.offset)
    IN IF qs.status # "returned"
       THEN [ status |-> "diverges", answer |-> ZeroAnswer, hi |-> qs.hi ]
       ELSE IF responseHeader.ancount > 0
       THEN [ status |-> a.status, answer |-> a.answer,
              hi |-> Max(qs.hi, a.hi) ]
       ELSE [ status |-> "returned", answer |-> DefaultAnswer(junk),
              hi |-> qs.hi ]

\* The forwardRequest carrying the question as main echoes it (type 1,
\* class 1) instead of the question of the request.
ForwardRequest_Echoed(question, queryId) ==
    [ header |-> [ id |-> queryId, flags |-> 256, qdcount |-> 1,
                   ancount |-> 0, nscount |-> 0, arcount |-> 0 ],
      questions |-> <<[ name |-> question.name, type |-> 1, qclass |-> 1 ]>>,
      answers |-> <<>> ]

\* The forwardRequest forwardQuery builds.
ForwardRequest(question, queryId) ==
    [ header |-> [ id |-> queryId, flags |-> 256, qdcount |-> 1,
                   ancount |-> 0, nscount |-> 0, arcount |-> 0 ],
      questions |-> <<question>>,
      answers |-> <<>> ]

\* The flags of the response with aa, tc, ra and z taken from the request too.
ResponseFlags_CopyBits(rh) ==
    LET requestOpcode == getOpcode(rh)
        rcode == IF requestOpcode = 0 THEN 0 ELSE 4
    IN (32768 + (rh.flags % 32768) - (rh.flags % 16) + rcode) % 65536

\* The flags of the response with rcode = 0 whatever the opcode.
ResponseFlags_NoError(rh) ==
    (32768 + getOpcode(rh) * 2048 + getRD(rh) * 256) % 65536

\* (qr << 15) | (opcode << 11) | (aa << 10) | (tc << 9) | (rd << 8) | (ra << 7)
\* | (z << 4) | rcode, with qr = 1, aa = tc = ra = z = 0.
ResponseFlags(rh) ==
    LET requestOpcode == getOpcode(rh)
        requestRD == getRD(rh)
        rcode == IF requestOpcode = 0 THEN 0 ELSE 4
    IN (32768 + requestOpcode * 2048 + requestRD * 256 + rcode) % 65536

\* The response header with the id 1234 of the first stages.
ResponseHeader_FixedId(rh, n) ==
    [ id |-> 1234, flags |-> ResponseFlags(rh), qdcount |-> n % 65536,
      ancount |-> n % 65536, nscount |-> 0, arcount |-> 0 ]

\* The response header with the ancount = 1 of the first stages.
ResponseHeader_OneAnswer(rh, n) ==
    [ id |-> rh.id, flags |-> ResponseFlags(rh), qdcount |-> n % 65536,
      ancount |-> 1, nscount |-> 0, arcount |-> 0 ]

\* response.header as main fills it in, n being requestQuestions.size().
ResponseHeader(rh, n) ==
    [ id |-> rh.id, flags |-> ResponseFlags(rh), qdcount |-> n % 65536,
      ancount |-> n % 65536, nscount |-> 0, arcount |-> 0 ]

\* The question main puts in the response for reqQuestion.
ResponseQuestion(reqQuestion) ==
    [ name |-> reqQuestion.name, type |-> 1, qclass |-> 1 ]

\* The stub answer with the zero values of DNSAnswer{} but the name.
StubAnswer_Zero(reqQuestion) ==
    [ name |-> reqQuestion.name, type |-> 0, aclass |-> 0, ttl |-> U32(0),
      rdlength |-> 0, rdata |-> <<>> ]

\* The answer main builds when no resolver is configured.
StubAnswer(reqQuestion) ==
    [ name |-> reqQuestion.name, type |-> 1, aclass |-> 1, ttl |-> U32(60),
      rdlength |-> 4, rdata |-> <<8, 8, 8, 8>> ]

\* n bytes of memory nothing was written to.
Junk(n, junk) == <<>> \o [i \in 1..n |-> junk]

\* char buffer[512] in main, char responseBuffer[512] in forwardQuery.
BufSize == 512
RespBufSize == 512

(***************************************************************************)
(* Inputs.                                                                 *)
(***************************************************************************)
\* Longest raw buffer handed to parseDomainName.
MaxBufLen == 5
\* Pointers one call of parseDomainName is followed through before the run is
\* left alone (a pointer loop never ends).
MaxHops == 4
\* Most labels in a name handed to encodeDomainName.
MaxLabels == 2

\* What a read past the end of an array may find.
GarbageBytes == {0, 192}

\* 0x00, the label lengths 1 and 2 (also label bytes and pointer targets), and
\* the pointer byte 0xC0.
RawAlphabet == {0, 1, 2, 192}
RawBuffers == UNION {[1..n -> RawAlphabet] : n \in 1..MaxBufLen}

\* "codecrafters.io" spelled at offset 12 of a message, followed by a type and
\* a class, and at offset 33 the name [0x03,'a','b','c',0xC0,0x0C].
CodecraftersIo ==
    <<99, 111, 100, 101, 99, 114, 97, 102, 116, 101, 114, 115, 46, 105, 111>>
AbcCodecraftersIo == <<97, 98, 99, 46>> \o CodecraftersIo
ExampleBuffer ==
    <<4, 210, 1, 0, 0, 2, 0, 0, 0, 0, 0, 0>>
    \o <<12, 99, 111, 100, 101, 99, 114, 97, 102, 116, 101, 114, 115,
         2, 105, 111, 0>>
    \o <<0, 1, 0, 1>>
    \o <<3, 97, 98, 99, 192, 12>>
    \o <<0, 1, 0, 1>>
ExampleOffset == Len(ExampleBuffer) - 10

\* Labels of 1, 2 and 63 bytes, and the names made of up to MaxLabels of them.
Labels == {<<97>>, <<98, 99>>, [k \in 1..63 |-> 122]}
RECURSIVE JoinDot(_)
JoinDot(ls) ==
    IF ls = <<>> THEN <<>>
    ELSE IF Len(ls) = 1 THEN ls[1]
    ELSE ls[1] \o <<46>> \o JoinDot(Tail(ls))
Domains == {JoinDot(ls) : ls \in UNION {[1..n -> Labels] : n \in 1..MaxLabels}}

\* Names with a segment of 64, 200 or 256 bytes.
LongLabels == {[k \in 1..n |-> 122] : n \in {64, 200, 256}}
LongDomains == LongLabels \cup {<<97, 46>> \o l : l \in LongLabels}

\* Datagrams main receives before the model stops.
MaxRequests == 2

\* Wire forms used to write the datagrams below.
Wire16(x) == <<x \div 256, x % 256>>
WireHeader(id, flags, qdcount, ancount) ==
    Wire16(id) \o Wire16(flags) \o Wire16(qdcount) \o Wire16(ancount)
    \o <<0, 0, 0, 0>>
\* "ab.c", and "x." followed by a pointer to offset 12
WireAbC == <<2, 97, 98, 1, 99, 0>>
WireXPtr12 == <<1, 120, 192, 12>>
NameAbC == <<97, 98, 46, 99>>
NameXAbC == <<120, 46, 97, 98, 46, 99>>

\* One query per opcode 0..15, with the other flag bits varied.
FlagExtras == <<0, 256, 34815, 33023>>
OpcodeQueries ==
    { WireHeader(4608 + op, op * 2048 + FlagExtras[(op % 4) + 1], 1, 0)
      \o WireAbC \o Wire16(1) \o Wire16(1) : op \in 0..15 }

Datagrams ==
    OpcodeQueries
    \cup {
      \* a question of type AAAA (28), class CH (3)
      WireHeader(43981, 0, 1, 0) \o WireAbC \o Wire16(28) \o Wire16(3),
      \* two questions, the second compressed
      WireHeader(258, 256, 2, 0) \o WireAbC \o Wire16(1) \o Wire16(1)
          \o WireXPtr12 \o Wire16(1) \o Wire16(1),
      \* two different questions with types 15 and 16
      WireHeader(772, 256, 2, 0) \o <<1, 120, 0>> \o Wire16(15) \o Wire16(1)
          \o <<1, 121, 0>> \o Wire16(16) \o Wire16(1),
      \* no question
      WireHeader(65535, 256, 0, 0),
      \* a name that is a pointer to itself
      WireHeader(4660, 256, 1, 0) \o <<192, 12>> \o Wire16(1) \o Wire16(1),
      \* qdcount = 2 with one question present
      WireHeader(4661, 256, 2, 0) \o WireAbC \o Wire16(1) \o Wire16(1),
      \* a pointer to offset 0x3FFF, past the buffer
      WireHeader(4662, 256, 1, 0) \o <<255, 255>> \o Wire16(1) \o Wire16(1),
      \* a single byte
      <<18>>,
      \* a question cut in the middle of its first label
      WireHeader(4663, 256, 1, 0) \o <<2, 97>>,
      \* a name of one label, the byte '.'
      WireHeader(4664, 256, 1, 0) \o <<1, 46, 0>> \o Wire16(1) \o Wire16(1),
      \* a query followed by zero bytes up to the size of buffer
      WireHeader(4665, 256, 1, 0) \o WireAbC \o Wire16(1) \o Wire16(1)
          \o Junk(BufSize - 22, 0)
    }

\* Datagrams the resolver may answer a sub-query with.
ReplyA ==
    WireHeader(4660, 33152, 1, 1) \o WireAbC \o Wire16(1) \o Wire16(1)
    \o <<192, 12>> \o Wire16(1) \o Wire16(1) \o <<0, 0, 1, 44>> \o Wire16(4)
    \o <<1, 2, 3, 4>>
ReplyB ==
    WireHeader(39321, 33152, 1, 2) \o WireAbC \o Wire16(1) \o Wire16(1)
    \o WireAbC \o Wire16(1) \o Wire16(1) \o <<0, 0, 0, 60>> \o Wire16(4)
    \o <<5, 6, 7, 8>>
    \o <<192, 12>> \o Wire16(1) \o Wire16(1) \o <<0, 0, 0, 60>> \o Wire16(4)
    \o <<9, 9, 9, 9>>
ReplyNone ==
    WireHeader(4660, 33155, 1, 0) \o WireAbC \o Wire16(1) \o Wire16(1)
ReplyLoop ==
    WireHeader(4660, 33152, 0, 1) \o <<192, 12>>
ReplyFar ==
    WireHeader(4660, 33152, 0, 1) \o <<255, 255>>
\* an answer announcing 4 bytes of rdata and carrying 2
ReplyShort ==
    WireHeader(4660, 33152, 1, 1) \o WireAbC \o Wire16(1) \o Wire16(1)
    \o <<192, 12>> \o Wire16(1) \o Wire16(1) \o <<0, 0, 1, 44>> \o Wire16(4)
    \o <<1, 2>>
\* two questions, the second compressed, and one answer 7.7.7.7
ReplyTwoQuestions ==
    WireHeader(4660, 33152, 2, 1) \o WireAbC \o Wire16(1) \o Wire16(1)
    \o <<192, 12>> \o Wire16(1) \o Wire16(1)
    \o <<192, 12>> \o Wire16(1) \o Wire16(1) \o <<0, 0, 0, 60>> \o Wire16(4)
    \o <<7, 7, 7, 7>>
Replies ==
    {ReplyA, ReplyB, ReplyNone, ReplyLoop, ReplyFar, ReplyShort,
     ReplyTwoQuestions}

HeaderValues == {0, 258, 43981, 65535}
Headers ==
    [ id : HeaderValues, flags : HeaderValues, qdcount : HeaderValues,
      ancount : HeaderValues, nscount : HeaderValues, arcount : HeaderValues ]

NoHeader == [ id |-> 0, flags |-> 0, qdcount |-> 0, ancount |-> 0,
              nscount |-> 0, arcount |-> 0 ]
NoMem == [ bytes |-> <<>>, beyond |-> 0 ]

(***************************************************************************)
(* DNSHeader::serialize followed by DNSHeader::parse, on one header.       *)
(***************************************************************************)
HIdle ==
    /\ hPc = "idle" /\ hIn = NoHeader /\ hBytes = <<>> /\ hOut = NoHeader

NIdle ==
    /\ nPc = "idle" /\ nDomain = <<>> /\ nEncoded = FALSE /\ nMem = NoMem
    /\ nStart = 0 /\ nSt = NameEntry(0) /\ nFirstPtr = -1 /\ nHops = 0
    /\ nZeroAt = -1

NoMessage == [ header |-> NoHeader, questions |-> <<>>, answers |-> <<>> ]

SIdle ==
    /\ resolverIp = "" /\ udpSocket = "closed" /\ pc = "idle"
    /\ buffer = <<>> /\ bytesRead = 0
    /\ requestHeader = NoHeader /\ requestQuestions = <<>>
    /\ response = NoMessage /\ qi = 1 /\ forwardRequest = NoMessage
    /\ forwardSocket = "closed" /\ toResolver = <<>> /\ fromResolver = <<>>
    /\ toClient = <<>> /\ sendResult = "none" /\ nreq = 0

InitHeader ==
    /\ hPc = "start"
    /\ hIn \in Headers
    /\ hBytes = <<>>
    /\ hOut = NoHeader
    /\ NIdle
    /\ SIdle

HSerialize ==
    /\ hPc = "start"
    /\ hBytes' = DNSHeader_serialize(hIn)
    /\ hPc' = "serialized"
    /\ UNCHANGED <<hIn, hOut, nVars, sVars>>

HParse ==
    /\ hPc = "serialized"
    /\ hOut' = DNSHeader_parse([bytes |-> hBytes, beyond |-> 0])
    /\ hPc' = "parsed"
    /\ UNCHANGED <<hIn, hBytes, nVars, sVars>>

NextHeader == HSerialize \/ HParse

SpecHeader == InitHeader /\ [][NextHeader]_vars

(***************************************************************************)
(* One call of parseDomainName, iteration by iteration: on a raw buffer,   *)
(* or on the bytes encodeDomainName made of a name.                        *)
(***************************************************************************)
InitName ==
    /\ HIdle
    /\ SIdle
    /\ nFirstPtr = -1 /\ nHops = 0 /\ nZeroAt = -1
    /\ \/ /\ nPc = "loop"
          /\ nDomain = <<>>
          /\ nEncoded = FALSE
          /\ \/ /\ nMem \in [bytes : RawBuffers, beyond : GarbageBytes]
                /\ nStart \in 0..(Len(nMem.bytes) - 1)
             \/ /\ nMem \in [bytes : {ExampleBuffer}, beyond : GarbageBytes]
                /\ nStart \in {12, ExampleOffset}
          /\ nSt = NameEntry(nStart)
       \/ /\ nPc = "encode"
          /\ nDomain \in Domains \cup LongDomains
          /\ nEncoded = FALSE
          /\ nMem = NoMem
          /\ nStart = 0
          /\ nSt = NameEntry(0)

\* encodeDomainName(nDomain), then the call parseDomainName(encoded, 0).
NEncode ==
    /\ nPc = "encode"
    /\ nMem' = [bytes |-> encodeDomainName(nDomain), beyond |-> 0]
    /\ nEncoded' = TRUE
    /\ nPc' = "loop"
    /\ UNCHANGED <<nDomain, nStart, nSt, nFirstPtr, nHops, nZeroAt, hVars, sVars>>

\* One iteration of the loop of parseDomainName.
NStep ==
    /\ nPc = "loop"
    /\ nHops < MaxHops
    /\ nSt' = NameStep(nMem, nSt)
    /\ nPc' = nSt'.status
    /\ LET b == At(nMem, nSt.currentPos) IN
       /\ nFirstPtr' = IF IsPointer(b) /\ nFirstPtr = -1
                       THEN nSt.currentPos ELSE nFirstPtr
       /\ nHops' = IF IsPointer(b) THEN nHops + 1 ELSE nHops
       /\ nZeroAt' = IF b = 0 THEN nSt.currentPos ELSE nZeroAt
    /\ UNCHANGED <<nDomain, nEncoded, nMem, nStart, hVars, sVars>>

\* An iteration that reads past the end of data may fault instead.
NFault ==
    /\ nPc = "loop"
    /\ NameStep(nMem, nSt).hi >= Len(nMem.bytes)
    /\ nPc' = "crashed"
    /\ UNCHANGED <<nDomain, nEncoded, nMem, nStart, nSt, nFirstPtr, nHops,
                   nZeroAt, hVars, sVars>>

NextName == NEncode \/ NStep \/ NFault

SpecName == InitName /\ [][NextName]_vars

(***************************************************************************)
(* main and forwardQuery.                                                  *)
(***************************************************************************)
Init ==
    /\ HIdle
    /\ NIdle
    /\ resolverIp \in {"", "127.0.0.1"}
    /\ udpSocket = "open"
    /\ pc = "recvfrom"
    /\ \E junk \in GarbageBytes : buffer = Junk(BufSize, junk)
    /\ bytesRead = 0
    /\ requestHeader = NoHeader
    /\ requestQuestions = <<>>
    /\ response = NoMessage
    /\ qi = 1
    /\ forwardRequest = NoMessage
    /\ forwardSocket = "closed"
    /\ toResolver = <<>>
    /\ fromResolver = <<>>
    /\ toClient = <<>>
    /\ sendResult = "none"
    /\ nreq = 0

\* buffer after recvfrom stored the datagram d and main wrote
\* buffer[bytesRead] = '\0'; for a datagram of BufSize bytes that write is
\* past the end of buffer and leaves buffer as recvfrom filled it.
Stored(d) ==
    SubSeq(d \o <<0>> \o SubSeq(buffer, Len(d) + 2, BufSize), 1, BufSize)

\* main from the return of recvfrom to the end of the loop that parses the
\* questions, `stored` being the buffer and junk what lies past it.
ParseRequest(stored, junk) ==
    LET m == [bytes |-> stored, beyond |-> junk]
        h == DNSHeader_parse(m)
        qs == ParseQuestions(m, h.qdcount, 12, <<>>, 11)
    IN [ header |-> h, status |-> qs.status, questions |-> qs.questions,
         hi |-> qs.hi ]

\* What every return of recvfrom in main does, whatever follows.
Arrive(d, parsed) ==
    /\ nreq' = nreq + 1
    /\ buffer' = Stored(d)
    /\ bytesRead' = Len(d)
    /\ requestHeader' = parsed.header
    /\ qi' = 1
    /\ toResolver' = <<>>
    /\ fromResolver' = <<>>
    /\ toClient' = <<>>
    /\ UNCHANGED <<resolverIp, udpSocket, forwardRequest, forwardSocket,
                   sendResult, hVars, nVars>>

\* A datagram arrives; header and questions are parsed and the response header
\* is filled in.
Receive ==
    /\ pc = "recvfrom"
    /\ nreq < MaxRequests
    /\ \E d \in Datagrams, junk \in GarbageBytes :
        \E stored \in {Stored(d)} : \E parsed \in {ParseRequest(stored, junk)} :
        /\ parsed.status = "returned"
        /\ Arrive(d, parsed)
        /\ requestQuestions' = parsed.questions
        /\ response' = [ header |-> ResponseHeader(parsed.header,
                                                   Len(parsed.questions)),
                         questions |-> <<>>, answers |-> <<>> ]
        /\ pc' = "questions"

\* A datagram arrives and the parse of one of its names never returns.
ReceiveHang ==
    /\ pc = "recvfrom"
    /\ nreq < MaxRequests
    /\ \E d \in Datagrams, junk \in GarbageBytes :
        \E stored \in {Stored(d)} : \E parsed \in {ParseRequest(stored, junk)} :
        /\ parsed.status = "diverges"
        /\ Arrive(d, parsed)
        /\ requestQuestions' = parsed.questions
        /\ response' = NoMessage
        /\ pc' = "hung"

\* A datagram arrives and a read past the end of buffer, or the write of
\* buffer[bytesRead] past its end, faults.
ReceiveFault ==
    /\ pc = "recvfrom"
    /\ nreq < MaxRequests
    /\ \E d \in Datagrams, junk \in GarbageBytes :
        \E stored \in {Stored(d)} : \E parsed \in {ParseRequest(stored, junk)} :
        /\ parsed.hi >= BufSize \/ Len(d) >= BufSize
        /\ Arrive(d, parsed)
        /\ requestQuestions' = <<>>
        /\ response' = NoMessage
        /\ pc' = "crashed"

\* recvfrom returns -1: main leaves the loop, closes udpSocket and returns.
ReceiveFail ==
    /\ pc = "recvfrom"
    /\ pc' = "exited"
    /\ bytesRead' = -1
    /\ udpSocket' = "closed"
    /\ UNCHANGED <<resolverIp, buffer, requestHeader, requestQuestions,
                   response, qi, forwardRequest, forwardSocket, toResolver,
                   fromResolver, toClient, sendResult, nreq, hVars, nVars>>

\* The body of the loop over requestQuestions when no resolver is configured.
AnswerStub ==
    /\ pc = "questions"
    /\ qi <= Len(requestQuestions)
    /\ resolverIp = ""
    /\ LET reqQuestion == requestQuestions[qi] IN
       response' = [response EXCEPT
          !.questions = push_back(@, ResponseQuestion(reqQuestion)),
          !.answers = push_back(@, StubAnswer(reqQuestion))]
    /\ qi' = qi + 1
    /\ UNCHANGED <<resolverIp, udpSocket, pc, buffer, bytesRead, requestHeader,
                   requestQuestions, forwardRequest, forwardSocket,
                   toResolver, fromResolver, toClient, sendResult, nreq,
                   hVars, nVars>>

\* How one call of forwardQuery ended: on a failed socket, sendto or recvfrom,
\* or on the datagram recvfrom stored.
Failed(call) == [ how |-> call, datagram |-> <<>> ]
Replied(r) == [ how |-> "reply", datagram |-> r ]

\* forwardQuery has returned `answer` for requestQuestions[qi], having ended
\* the way `how` tells: main pushes the answer and goes to the next question.
Answered(answer, how) ==
    /\ response' = [response EXCEPT !.answers = push_back(@, answer)]
    /\ fromResolver' = Append(fromResolver, how)
    /\ qi' = qi + 1
    /\ forwardRequest' = NoMessage
    /\ forwardSocket' = "closed"
    /\ pc' = "questions"

\* The loop body with a resolver, when socket() fails in forwardQuery.
ForwardSocketFail ==
    /\ pc = "questions"
    /\ qi <= Len(requestQuestions)
    /\ resolverIp # ""
    /\ response' = [response EXCEPT
          !.questions = push_back(@, ResponseQuestion(requestQuestions[qi])),
          !.answers = push_back(@, ZeroAnswer)]
    /\ fromResolver' = Append(fromResolver, Failed("socket"))
    /\ qi' = qi + 1
    /\ UNCHANGED <<resolverIp, udpSocket, pc, buffer, bytesRead, requestHeader,
                   requestQuestions, forwardRequest, forwardSocket,
                   toResolver, toClient, sendResult, nreq, hVars, nVars>>

\* ForwardSendFail without the close(forwardSocket) before the return.
ForwardSendFail_NoClose ==
    /\ pc = "questions"
    /\ qi <= Len(requestQuestions)
    /\ resolverIp # ""
    /\ response' = [response EXCEPT
          !.questions = push_back(@, ResponseQuestion(requestQuestions[qi])),
          !.answers = push_back(@, ZeroAnswer)]
    /\ fromResolver' = Append(fromResolver, Failed("sendto"))
    /\ qi' = qi + 1
    /\ forwardSocket' = "open"
    /\ UNCHANGED <<resolverIp, udpSocket, pc, buffer, bytesRead, requestHeader,
                   requestQuestions, forwardRequest, toResolver, toClient,
                   sendResult, nreq, hVars, nVars>>

\* The loop body with a resolver, when sendto fails in forwardQuery.
ForwardSendFail ==
    /\ pc = "questions"
    /\ qi <= Len(requestQuestions)
    /\ resolverIp # ""
    /\ response' = [response EXCEPT
          !.questions = push_back(@, ResponseQuestion(requestQuestions[qi])),
          !.answers = push_back(@, ZeroAnswer)]
    /\ fromResolver' = Append(fromResolver, Failed("sendto"))
    /\ qi' = qi + 1
    /\ UNCHANGED <<resolverIp, udpSocket, pc, buffer, bytesRead, requestHeader,
                   requestQuestions, forwardRequest, forwardSocket,
                   toResolver, toClient, sendResult, nreq, hVars, nVars>>

\* ForwardSend sending the sub-query twice.
ForwardSend_Twice ==
    /\ pc = "questions"
    /\ qi <= Len(requestQuestions)
    /\ resolverIp # ""
    /\ response' = [response EXCEPT
          !.questions = push_back(@, ResponseQuestion(requestQuestions[qi]))]
    /\ forwardRequest' = ForwardRequest(requestQuestions[qi], requestHeader.id)
    /\ forwardSocket' = "open"
    /\ toResolver' = toResolver \o <<DNSMessage_serialize(forwardRequest'),
                                     DNSMessage_serialize(forwardRequest')>>
    /\ pc' = "resolver"
    /\ UNCHANGED <<resolverIp, udpSocket, buffer, bytesRead, requestHeader,
                   requestQuestions, qi, fromResolver, toClient, sendResult,
                   nreq, hVars, nVars>>

\* ForwardSend for a server that does not wait for the resolver: once the
\* sub-query is sent it is back in the recvfrom of main.
ForwardSend_Async ==
    /\ pc = "questions"
    /\ qi <= Len(requestQuestions)
    /\ resolverIp # ""
    /\ response' = [response EXCEPT
          !.questions = push_back(@, ResponseQuestion(requestQuestions[qi]))]
    /\ forwardRequest' = ForwardRequest(requestQuestions[qi], requestHeader.id)
    /\ forwardSocket' = "open"
    /\ toResolver' = Append(toResolver, DNSMessage_serialize(forwardRequest'))
    /\ pc' = "recvfrom"
    /\ UNCHANGED <<resolverIp, udpSocket, buffer, bytesRead, requestHeader,
                   requestQuestions, qi, fromResolver, toClient, sendResult,
                   nreq, hVars, nVars>>

\* The loop body with a resolver, up to the recvfrom of forwardQuery: the
\* question is echoed, the sub-query built, serialized and sent.
ForwardSend ==
    /\ pc = "questions"
    /\ qi <= Len(requestQuestions)
    /\ resolverIp # ""
    /\ response' = [response EXCEPT
          !.questions = push_back(@, ResponseQuestion(requestQuestions[qi]))]
    /\ forwardRequest' = ForwardRequest(requestQuestions[qi], requestHeader.id)
    /\ forwardSocket' = "open"
    /\ toResolver' = Append(toResolver, DNSMessage_serialize(forwardRequest'))
    /\ pc' = "resolver"
    /\ UNCHANGED <<resolverIp, udpSocket, buffer, bytesRead, requestHeader,
                   requestQuestions, qi, fromResolver, toClient, sendResult,
                   nreq, hVars, nVars>>

\* responseBuffer after recvfrom stored the datagram r in it.
StoredReply(r, junk) ==
    [bytes |-> r \o Junk(RespBufSize - Len(r), junk), beyond |-> junk]

\* recvfrom fails in forwardQuery.
ForwardRecvFail ==
    /\ pc = "resolver"
    /\ Answered(ZeroAnswer, Failed("recvfrom"))
    /\ UNCHANGED <<resolverIp, udpSocket, buffer, bytesRead, requestHeader,
                   requestQuestions, toResolver, toClient, sendResult, nreq,
                   hVars, nVars>>

\* The resolver's datagram arrives: forwardQuery closes the socket, parses the
\* datagram and returns its answer.
ForwardReply ==
    /\ pc = "resolver"
    /\ \E r \in Replies, junk \in GarbageBytes :
          \E stored \in {StoredReply(r, junk)} :
          \E parsed \in {ParseReply(stored, junk)} :
          /\ parsed.status = "returned"
          /\ Answered(parsed.answer, Replied(r))
    /\ UNCHANGED <<resolverIp, udpSocket, buffer, bytesRead, requestHeader,
                   requestQuestions, toResolver, toClient, sendResult, nreq,
                   hVars, nVars>>

\* The resolver's datagram arrives and the parse of a name never returns.
ForwardReplyHang ==
    /\ pc = "resolver"
    /\ \E r \in Replies, junk \in GarbageBytes :
          /\ \E stored \in {StoredReply(r, junk)} :
                ParseReply(stored, junk).status = "diverges"
          /\ fromResolver' = Append(fromResolver, Replied(r))
    /\ forwardSocket' = "closed"
    /\ pc' = "hung"
    /\ UNCHANGED <<resolverIp, udpSocket, buffer, bytesRead, requestHeader,
                   requestQuestions, response, qi, forwardRequest, toResolver,
                   toClient, sendResult, nreq, hVars, nVars>>

\* The resolver's datagram arrives and a read past responseBuffer faults.
ForwardReplyFault ==
    /\ pc = "resolver"
    /\ \E r \in Replies, junk \in GarbageBytes :
          /\ \E stored \in {StoredReply(r, junk)} :
                ParseReply(stored, junk).hi >= RespBufSize
          /\ fromResolver' = Append(fromResolver, Replied(r))
    /\ forwardSocket' = "closed"
    /\ pc' = "crashed"
    /\ UNCHANGED <<resolverIp, udpSocket, buffer, bytesRead, requestHeader,
                   requestQuestions, response, qi, forwardRequest, toResolver,
                   toClient, sendResult, nreq, hVars, nVars>>

\* After the loop: the response is serialized and handed to sendto.
SendResponse ==
    /\ pc = "questions"
    /\ qi > Len(requestQuestions)
    /\ toClient' = DNSMessage_serialize(response)
    /\ sendResult' \in {"ok", "failed"}
    /\ pc' = "sent"
    /\ UNCHANGED <<resolverIp, udpSocket, buffer, bytesRead, requestHeader,
                   requestQuestions, response, qi, forwardRequest,
                   forwardSocket, toResolver, fromResolver, nreq, hVars,
                   nVars>>

\* NextIteration for a server that leaves the loop when sendto fails.
NextIteration_StopOnSendFailure ==
    /\ pc = "sent"
    /\ pc' = IF sendResult = "failed" THEN "exited" ELSE "recvfrom"
    /\ udpSocket' = IF sendResult = "failed" THEN "closed" ELSE "open"
    /\ requestHeader' = NoHeader
    /\ requestQuestions' = <<>>
    /\ response' = NoMessage
    /\ qi' = 1
    /\ toResolver' = <<>>
    /\ fromResolver' = <<>>
    /\ toClient' = <<>>
    /\ UNCHANGED <<resolverIp, buffer, bytesRead, forwardRequest,
                   forwardSocket, sendResult, nreq, hVars, nVars>>

\* Whatever sendto returned, the iteration of while (true) ends, its locals
\* go out of scope, and main is back in recvfrom.
NextIteration ==
    /\ pc = "sent"
    /\ pc' = "recvfrom"
    /\ requestHeader' = NoHeader
    /\ requestQuestions' = <<>>
    /\ response' = NoMessage
    /\ qi' = 1
    /\ toResolver' = <<>>
    /\ fromResolver' = <<>>
    /\ toClient' = <<>>
    /\ UNCHANGED <<resolverIp, udpSocket, buffer, bytesRead, forwardRequest,
                   forwardSocket, sendResult, nreq, hVars, nVars>>

Next ==
    \/ Receive \/ ReceiveHang \/ ReceiveFault \/ ReceiveFail
    \/ AnswerStub
    \/ ForwardSocketFail \/ ForwardSendFail \/ ForwardSend
    \/ ForwardRecvFail \/ ForwardReply \/ ForwardReplyHang
    \/ ForwardReplyFault
    \/ SendResponse \/ NextIteration

Spec == Init /\ [][Next]_vars

\* The steps main takes by itself, and the ends of a round-trip with the
\* resolver: a datagram or an error returned by the recvfrom of forwardQuery.
Program ==
    \/ AnswerStub \/ ForwardSocketFail \/ ForwardSendFail \/ ForwardSend
    \/ SendResponse \/ NextIteration
RoundTripEnds ==
    \/ ForwardRecvFail \/ ForwardReply \/ ForwardReplyHang
    \/ ForwardReplyFault

\* main keeps running, and every recvfrom of forwardQuery returns.
LiveSpec == Init /\ [][Next]_vars /\ WF_vars(Program) /\ WF_vars(RoundTripEnds)

(***************************************************************************)
(* Properties of the codec.                                                *)
(***************************************************************************)
\* C1: when parseDomainName returns, the caller's offset is the position of
\* the first pointer followed plus 2 if any pointer was followed, whatever
\* was followed after it, and the position just past the terminating zero
\* byte otherwise; so it is past the offset of the call, by at least 2 when a
\* pointer was followed.
C1_CallerOffset ==
    nPc = "returned" =>
        /\ nFirstPtr # -1 => nSt.offset = nFirstPtr + 2
        /\ nFirstPtr = -1 => nSt.offset = nZeroAt + 1
        /\ nSt.offset > nStart
        /\ nFirstPtr # -1 => nSt.offset >= nStart + 2

\* A call that followed two pointers or more, ended on a zero byte before the
\* offset of the call, and read nothing past the buffer.
C1_Witness ==
    /\ nPc = "returned"
    /\ nHops >= 2
    /\ nZeroAt < nStart
    /\ nSt.hi < Len(nMem.bytes)

\* The dotted name made of the literal labels data[pos .. upto - 1].
RECURSIVE LiteralName(_, _, _)
LiteralName(m, pos, upto) ==
    IF pos >= upto THEN <<>>
    ELSE LET n == At(m, pos)
             label == [k \in 1..n |-> At(m, pos + k)]
             rest == LiteralName(m, pos + 1 + n, upto)
         IN IF rest = <<>> THEN label ELSE label \o <<46>> \o rest

\* C2: a name made of literal labels followed by a pointer decodes to the
\* literal labels, in order, followed by the name at the pointer's target
\* ((byte0 & 0x3F) << 8) | byte1, joined by '.'; and the name
\* [0x03,'a','b','c',0xC0,0x0C], with "codecrafters.io" at offset 12, decodes
\* to "abc.codecrafters.io" with the offset advanced by 6.
C2_PointerName ==
    /\ (nPc = "returned" /\ nFirstPtr # -1) =>
          LET byte0 == At(nMem, nFirstPtr)
              byte1 == At(nMem, nFirstPtr + 1)
              target == ((byte0 % 64) * 256) + byte1
              literal == LiteralName(nMem, nStart, nFirstPtr)
              pointed == parseDomainName(nMem, target).name
          IN nSt.name = IF literal = <<>> THEN pointed
                        ELSE IF pointed = <<>> THEN literal
                        ELSE literal \o <<46>> \o pointed
    /\ (nPc = "returned" /\ nMem.bytes = ExampleBuffer
                         /\ nStart = ExampleOffset) =>
          /\ nSt.name = AbcCodecraftersIo
          /\ nSt.offset = nStart + 6

\* The example name of the spec has been decoded.
C2_Witness ==
    /\ nPc = "returned"
    /\ nMem.bytes = ExampleBuffer
    /\ nStart = ExampleOffset
    /\ nFirstPtr = nStart + 4

\* C3: a step of parseDomainName that meets a pointer whose target is at or
\* after the pointer's own offset ends the decoding with a failure: it neither
\* goes on looping nor returns a name.
C3_PointerGuard ==
    [][ (/\ nPc = "loop"
         /\ IsPointer(At(nMem, nSt.currentPos))
         /\ ((At(nMem, nSt.currentPos) % 64) * 256)
               + At(nMem, nSt.currentPos + 1) >= nSt.currentPos)
        => nPc' \notin {"loop", "returned"} ]_vars

\* C4: parse(serialize(h)) = h in every field, and serialize writes each field
\* high byte first.
C4_HeaderRoundTrip ==
    hPc = "parsed" =>
        /\ hOut = hIn
        /\ Len(hBytes) = 12
        /\ hBytes[1] * 256 + hBytes[2] = hIn.id
        /\ hBytes[3] * 256 + hBytes[4] = hIn.flags
        /\ hBytes[5] * 256 + hBytes[6] = hIn.qdcount
        /\ hBytes[7] * 256 + hBytes[8] = hIn.ancount
        /\ hBytes[9] * 256 + hBytes[10] = hIn.nscount
        /\ hBytes[11] * 256 + hBytes[12] = hIn.arcount
        /\ \A k \in 1..12 : hBytes[k] \in 0..255

\* A header whose fields differ in their high and low bytes has made the trip.
C4_Witness ==
    /\ hPc = "parsed"
    /\ hIn.id = 43981 /\ hIn.flags = 258 /\ hIn.qdcount = 65535
    /\ hIn.arcount = 258

\* C5: decoding encodeDomainName(n) from offset 0, for a name n of labels of
\* 1 to 63 bytes, returns n and an offset equal to the length of the encoding,
\* whose last byte is the only zero-length label.
C5_NameRoundTrip ==
    (nPc = "returned" /\ nEncoded /\ nDomain \in Domains) =>
        /\ nSt.name = nDomain
        /\ nSt.offset = Len(nMem.bytes)
        /\ Len(nMem.bytes) = Len(nDomain) + 2
        /\ nMem.bytes[Len(nMem.bytes)] = 0
        /\ nZeroAt = Len(nMem.bytes) - 1

\* A name of two labels, one of them 63 bytes long, has made the trip.
C5_Witness ==
    /\ nPc = "returned" /\ nEncoded /\ nDomain \in Domains
    /\ Len(nDomain) > 64
    /\ \E i \in 1..Len(nDomain) : nDomain[i] = 46

(***************************************************************************)
(* Properties of main and forwardQuery.                                    *)
(***************************************************************************)
\* The id, the opcode, the rcode bits and the qdcount the request carries, as
\* they lie in buffer, and the same fields of the response handed to sendto.
RequestId == (buffer[1] * 256) + buffer[2]
RequestOpcode == (buffer[3] \div 8) % 16
RequestQdcount == (buffer[5] * 256) + buffer[6]
SentId == (toClient[1] * 256) + toClient[2]
SentRcode == toClient[4] % 16
SentQdcount == (toClient[5] * 256) + toClient[6]
SentAncount == (toClient[7] * 256) + toClient[8]

\* The datagrams the resolver answered the sub-queries of this request with.
RepliesGot == { fromResolver[i].datagram : i \in 1..Len(fromResolver) }

\* C6: the response handed to sendto carries the id of the request, in stub
\* mode and in resolver mode, whatever the resolver answered.
C6_ResponseId ==
    pc = "sent" =>
        /\ SentId = RequestId
        /\ response.header.id = RequestId

\* A request with id 0x0102 answered through a resolver whose reply carried
\* the id 0x9999.
C6_Witness ==
    /\ pc = "sent"
    /\ resolverIp # ""
    /\ ReplyB \in RepliesGot
    /\ RequestId = 258
    /\ (ReplyB[1] * 256) + ReplyB[2] = 39321

\* Bytes of the serialized questions and answers of a message.
SectionBytes(msg) ==
    Len(Flatten([i \in 1..Len(msg.questions) |->
                    DNSQuestion_serialize(msg.questions[i])]))
    + Len(Flatten([i \in 1..Len(msg.answers) |->
                    DNSAnswer_serialize(msg.answers[i])]))

\* C7: the response to a request with q questions has qdcount = ancount = q,
\* q question entries and q answer entries, and each sub-query sent to the
\* resolver has qdcount = 1 with one question and ancount = 0 with no answer.
C7_Counts ==
    /\ pc = "sent" =>
          /\ SentQdcount = RequestQdcount
          /\ SentAncount = RequestQdcount
          /\ Len(response.questions) = RequestQdcount
          /\ Len(response.answers) = RequestQdcount
          /\ Len(toClient) = 12 + SectionBytes(response)
    /\ pc = "resolver" =>
          LET sent == toResolver[Len(toResolver)] IN
          /\ (sent[5] * 256) + sent[6] = Len(forwardRequest.questions)
          /\ (sent[7] * 256) + sent[8] = Len(forwardRequest.answers)
          /\ Len(forwardRequest.questions) = 1
          /\ Len(forwardRequest.answers) = 0
          /\ Len(sent) = 12 + SectionBytes(forwardRequest)

\* A response to a request of two questions that went through two sub-queries.
C7_Witness ==
    /\ pc = "sent"
    /\ RequestQdcount = 2
    /\ Len(toResolver) = 2
    /\ SentAncount = 2

\* Sub-queries handed to sendto successfully among the first i calls of
\* forwardQuery.
SubQueries(i) ==
    Cardinality({ j \in 1..i : fromResolver[j].how \in {"recvfrom", "reply"} })

\* C8: the answer at position i of the response is the one obtained for
\* question i: the stub record of question i, or what the i-th call of
\* forwardQuery, made for question i, returned; one answer per question.
C8_AnswerOrder ==
    pc \in {"questions", "resolver", "sent"} =>
        /\ Len(response.answers) = qi - 1
        /\ pc = "sent" => Len(response.answers) = Len(requestQuestions)
        /\ \A i \in 1..Len(response.answers) :
              IF resolverIp = ""
              THEN response.answers[i] = StubAnswer(requestQuestions[i])
              ELSE LET f == fromResolver[i] IN
                   /\ f.how # "reply" => response.answers[i] = ZeroAnswer
                   /\ f.how = "reply" =>
                        \E junk \in GarbageBytes :
                            response.answers[i] =
                                ParseReply(StoredReply(f.datagram, junk),
                                           junk).answer
                   /\ f.how \in {"recvfrom", "reply"} =>
                        toResolver[SubQueries(i)] =
                            DNSMessage_serialize(
                                ForwardRequest(requestQuestions[i],
                                               requestHeader.id))
        /\ (/\ Len(fromResolver) = 2
            /\ fromResolver[1] = Replied(ReplyA)
            /\ fromResolver[2] = Replied(ReplyB)) =>
              /\ response.answers[1].rdata = <<1, 2, 3, 4>>
              /\ response.answers[2].rdata = <<5, 6, 7, 8>>

\* Two different questions answered by the resolver with 1.2.3.4 and 5.6.7.8.
C8_Witness ==
    /\ pc = "sent"
    /\ Len(requestQuestions) = 2
    /\ requestQuestions[1].name # requestQuestions[2].name
    /\ fromResolver = <<Replied(ReplyA), Replied(ReplyB)>>
    /\ response.answers[1].rdata = <<1, 2, 3, 4>>
    /\ response.answers[2].rdata = <<5, 6, 7, 8>>

\* C9: each question of the response is the question of the request at the
\* same position, in name, type and class.
C9_QuestionsEchoed ==
    pc = "sent" =>
        /\ Len(response.questions) = Len(requestQuestions)
        /\ \A i \in 1..Len(response.questions) :
              /\ response.questions[i].name = requestQuestions[i].name
              /\ response.questions[i].type = requestQuestions[i].type
              /\ response.questions[i].qclass = requestQuestions[i].qclass

\* C10: the rcode of the response is 0 when the opcode of the request is 0 and
\* 4 for every opcode 1..15, whatever rcode bits the request carries.
C10_Rcode ==
    pc = "sent" =>
        /\ RequestOpcode = 0 => SentRcode = 0
        /\ RequestOpcode \in 1..15 => SentRcode = 4
        /\ (toClient[3] \div 8) % 16 = RequestOpcode

\* A request with opcode 14 and all the rcode bits set has been answered.
C10_Witness ==
    /\ pc = "sent"
    /\ RequestOpcode = 14
    /\ buffer[4] % 16 = 15
    /\ SentRcode = 4

\* C11: the flags of the response have qr = 1, the opcode (bits 11-14) and the
\* rd (bit 8) of the request, and aa, tc, ra and z all 0, whatever other bits
\* the flags of the request have set.
C11_Flags ==
    pc = "sent" =>
        /\ toClient[3] \div 128 = 1
        /\ (toClient[3] \div 8) % 16 = RequestOpcode
        /\ toClient[3] % 2 = buffer[3] % 2
        /\ (toClient[3] \div 4) % 2 = 0
        /\ (toClient[3] \div 2) % 2 = 0
        /\ toClient[4] \div 128 = 0
        /\ (toClient[4] \div 16) % 8 = 0
        /\ response.header.flags = (toClient[3] * 256) + toClient[4]

\* A request with opcode 10 and qr, aa, tc, rd, ra and z all set has been
\* answered.
C11_Witness ==
    /\ pc = "sent"
    /\ buffer[3] \div 128 = 1
    /\ buffer[3] % 8 = 7
    /\ buffer[4] \div 16 = 15
    /\ RequestOpcode = 10
    /\ toClient[3] = 128 + (10 * 8) + 1

\* C12: with no resolver configured, every answer of every response has
\* type 1, class 1, ttl 60, rdlength 4, rdata 8.8.8.8 and the name of the
\* question at the same position, and nothing is sent to a resolver: no
\* forward socket is opened and no sub-query is built.
C12_StubMode ==
    resolverIp = "" =>
        /\ toResolver = <<>>
        /\ fromResolver = <<>>
        /\ forwardSocket = "closed"
        /\ forwardRequest = NoMessage
        /\ pc # "resolver"
        /\ \A i \in 1..Len(response.answers) :
              /\ response.answers[i].type = 1
              /\ response.answers[i].aclass = 1
              /\ response.answers[i].ttl = <<0, 60>>
              /\ response.answers[i].rdlength = 4
              /\ response.answers[i].rdata = <<8, 8, 8, 8>>
              /\ response.answers[i].name = requestQuestions[i].name
        /\ (pc = "sent" /\ Len(requestQuestions) > 0) =>
              /\ Len(response.answers) = Len(requestQuestions)
              /\ SubSeq(toClient, Len(toClient) - 9, Len(toClient)) =
                     <<0, 0, 0, 60, 0, 4, 8, 8, 8, 8>>

\* A request of two questions with different names, of types 15 and 16, has
\* been answered without a resolver.
C12_Witness ==
    /\ resolverIp = ""
    /\ pc = "sent"
    /\ Len(response.answers) = 2
    /\ requestQuestions[1].type = 15
    /\ requestQuestions[2].type = 16
    /\ response.answers[1].name # response.answers[2].name

\* C13: every sub-query sent to the resolver has the id of the request, flags
\* 0x0100, qdcount 1, ancount = nscount = arcount = 0, and one question: the
\* question of the request being forwarded, with its name, type and class.
C13_SubQuery ==
    /\ \A k \in 1..Len(toResolver) :
          LET sent == toResolver[k] IN
          /\ (sent[1] * 256) + sent[2] = RequestId
          /\ SubSeq(sent, 3, 12) = <<1, 0, 0, 1, 0, 0, 0, 0, 0, 0>>
    /\ pc = "resolver" =>
          LET sent == toResolver[Len(toResolver)]
              q == requestQuestions[qi]
          IN /\ forwardRequest.questions = <<q>>
             /\ forwardRequest.answers = <<>>
             /\ forwardRequest.header.id = requestHeader.id
             /\ Len(sent) = 12 + Len(encodeDomainName(q.name)) + 4
             /\ SubSeq(sent, 13, Len(sent) - 4) = encodeDomainName(q.name)
             /\ SubSeq(sent, Len(sent) - 3, Len(sent)) =
                    <<q.type \div 256, q.type % 256,
                      q.qclass \div 256, q.qclass % 256>>

\* The question "ab.c" of type 28 and class 3 of the request 0xABCD is on its
\* way to the resolver, byte for byte as the request carried it.
C13_Witness ==
    /\ pc = "resolver"
    /\ RequestId = 43981
    /\ requestQuestions[qi].type = 28
    /\ requestQuestions[qi].qclass = 3
    /\ SubSeq(toResolver[1], 13, 22) = SubSeq(buffer, 13, 22)
    /\ SubSeq(toResolver[1], 13, 22) = WireAbC \o <<0, 28, 0, 3>>

\* C14: the answer propagated for a question whose reply from the resolver has
\* ancount = 0 is the zero-valued answer: empty name, type 0, class 0, ttl 0,
\* rdlength 0 and empty rdata.
C14_NoRecord ==
    \A i \in 1..Len(response.answers) :
        (/\ resolverIp # ""
         /\ fromResolver[i].how = "reply"
         /\ (fromResolver[i].datagram[7] * 256)
                + fromResolver[i].datagram[8] = 0)
        => /\ response.answers[i].name = <<>>
           /\ response.answers[i].type = 0
           /\ response.answers[i].aclass = 0
           /\ response.answers[i].ttl = <<0, 0>>
           /\ response.answers[i].rdlength = 0
           /\ response.answers[i].rdata = <<>>

\* Calls of forwardQuery of this request that failed on socket, sendto or
\* recvfrom.
FailedCalls ==
    { i \in 1..Len(fromResolver) : fromResolver[i].how # "reply" }

\* C15: a question whose forwarding failed (socket, sendto or recvfrom) gets
\* an empty record, main goes on with the next question, every question whose
\* socket and sendto succeeded has its own sub-query sent, and the response
\* handed to sendto has one record per question.
C15_FailureIsolation ==
    (resolverIp # "" /\ pc \in {"questions", "resolver", "sent"}) =>
        /\ \A i \in FailedCalls :
              /\ i <= Len(response.answers)
              /\ response.answers[i].name = <<>>
              /\ response.answers[i].type = 0
              /\ response.answers[i].aclass = 0
              /\ response.answers[i].ttl = <<0, 0>>
              /\ response.answers[i].rdlength = 0
              /\ response.answers[i].rdata = <<>>
        /\ Len(fromResolver) = qi - 1
        /\ Len(toResolver) =
              SubQueries(Len(fromResolver)) + (IF pc = "resolver" THEN 1 ELSE 0)
        /\ pc = "sent" =>
              /\ Len(fromResolver) = Len(requestQuestions)
              /\ Len(response.answers) = Len(requestQuestions)
              /\ SentAncount = Len(requestQuestions)
              /\ toClient = DNSMessage_serialize(response)

\* The first question of a request could not be forwarded, the second was
\* answered 1.2.3.4 by the resolver, and the response has been sent.
C15_Witness ==
    /\ pc = "sent"
    /\ sendResult = "ok"
    /\ Len(fromResolver) = 2
    /\ fromResolver[1].how = "socket"
    /\ fromResolver[2] = Replied(ReplyA)
    /\ response.answers[1].rdlength = 0
    /\ response.answers[2].rdata = <<1, 2, 3, 4>>
    /\ Len(toResolver) = 1

\* C16: a datagram of fewer than 12 bytes is not decoded: main is never
\* parsing, answering or sending on a header taken from such a datagram, and
\* has no header decoded from it.
C16_TruncatedHeader ==
    (nreq > 0 /\ bytesRead \in 0..11) =>
        /\ pc \in {"recvfrom", "exited"}
        /\ requestHeader = NoHeader

\* The longest '.'-separated segment of domain from position start on, and
\* the length of its first segment.
RECURSIVE LongestSegment(_, _)
LongestSegment(domain, start) ==
    LET pos == Find(domain, start) IN
    IF pos = -1 THEN Len(domain) - start
    ELSE Max(pos - start, LongestSegment(domain, pos + 1))
FirstSegment(domain) ==
    IF Find(domain, 0) = -1 THEN Len(domain) ELSE Find(domain, 0)

\* C17: encodeDomainName yields an encoding only for names whose segments are
\* all of 63 bytes or fewer, and the first length byte of an encoding is the
\* length of the first segment, never that length truncated to 8 bits.
C17_LabelTooLong ==
    nEncoded =>
        /\ LongestSegment(nDomain, 0) <= 63
        /\ nMem.bytes[1] = FirstSegment(nDomain)

\* Bytes of the reply d left after the rdlength field of its first answer, or
\* -1 when the reply has no answer or ends before that field; junk is what
\* responseBuffer held.
RdataLeft(d, junk) ==
    LET m == StoredReply(d, junk)
        h == DNSHeader_parse(m)
        qs == ParseQuestions(m, h.qdcount, 12, <<>>, 11)
        a == DNSAnswer_parse(m, qs.offset)
    IN IF /\ Len(d) >= 12 /\ h.ancount > 0
          /\ qs.status = "returned" /\ a.status = "returned"
          /\ a.offset - a.answer.rdlength <= Len(d)
       THEN Len(d) - (a.offset - a.answer.rdlength)
       ELSE -1

\* C18: the rdata of an answer taken from a reply of the resolver holds no
\* more bytes than the reply had left after the rdlength field: when rdlength
\* is larger, no rdata is taken from the reply.
C18_RdataWithinReply ==
    \A i \in 1..Len(response.answers) :
        (resolverIp # "" /\ fromResolver[i].how = "reply") =>
            \A junk \in GarbageBytes :
                LET left == RdataLeft(fromResolver[i].datagram, junk) IN
                (left >= 0 /\ Len(response.answers[i].rdata) > left)
                    => response.answers[i].rdata = <<>>

\* C19: parsing the header and the questions of a datagram of bytesRead bytes
\* reads no index at or past bytesRead, and never ends in a fault or in a
\* parse that does not return: the datagram is answered or dropped.
C19_ReadsWithinDatagram ==
    /\ ~(pc = "crashed" /\ fromResolver = <<>>)
    /\ ~(pc = "hung" /\ fromResolver = <<>>)
    /\ pc \in {"questions", "resolver", "sent"} =>
          \A junk \in GarbageBytes :
              ParseRequest(buffer, junk).hi < bytesRead

\* buffer after recvfrom stored d0 in a buffer holding the byte j everywhere,
\* and buffer after a later recvfrom stored d over prev.
Earlier(d0, j) == SubSeq(d0 \o <<0>> \o Junk(BufSize, j), 1, BufSize)
After(d, prev) ==
    SubSeq(d \o <<0>> \o SubSeq(prev, Len(d) + 2, BufSize), 1, BufSize)

\* The bytes main sends, without a resolver, for a request parsed as `parsed`.
StubResponse(parsed) ==
    DNSMessage_serialize(
        [ header |-> ResponseHeader(parsed.header, Len(parsed.questions)),
          questions |-> [i \in 1..Len(parsed.questions) |->
                            ResponseQuestion(parsed.questions[i])],
          answers |-> [i \in 1..Len(parsed.questions) |->
                            StubAnswer(parsed.questions[i])] ])

\* Datagrams that main, without a resolver, answers without reading past
\* buffer, when they arrive first.
HandledFirst(j) ==
    { d0 \in Datagrams :
        \A junk \in GarbageBytes :
            LET p == ParseRequest(Earlier(d0, j), junk) IN
            p.status = "returned" /\ p.hi < BufSize }

\* C20: without a resolver, the response sent for a datagram is the response
\* sent for the same datagram in any run where another datagram was handled
\* before it: nothing an earlier request left behind reaches the response.
C20_NoCarriedState ==
    (resolverIp = "" /\ pc = "sent") =>
        \A j \in GarbageBytes : \A d0 \in HandledFirst(j) :
            LET d == SubSeq(buffer, 1, bytesRead)
                other == ParseRequest(After(d, Earlier(d0, j)), 0)
            IN (other.status = "returned" /\ other.hi < BufSize)
                   => toClient = StubResponse(other)

(***************************************************************************)
(* Properties of the receive loop.                                         *)
(***************************************************************************)
\* C21: a datagram is read only in the recvfrom of main, and once one has
\* been read main is back in that recvfrom only from the state where every
\* question has its answer, no forward socket is open and the response has
\* been handed to sendto.
C21_OneAtATime ==
    [][ /\ nreq' # nreq => (pc = "recvfrom" /\ nreq' = nreq + 1)
        /\ (pc' = "recvfrom" /\ pc # "recvfrom") =>
              /\ pc = "sent"
              /\ Len(response.answers) = Len(requestQuestions)
              /\ Len(response.questions) = Len(requestQuestions)
              /\ forwardSocket = "closed"
              /\ toClient = DNSMessage_serialize(response)
              /\ sendResult \in {"ok", "failed"} ]_vars

\* A second datagram has been read, parsed, forwarded question by question
\* and answered.
C21_Witness ==
    /\ nreq = 2
    /\ pc = "sent"
    /\ Len(fromResolver) = 2
    /\ Len(toResolver) = 2

\* count answers decoded one after the other from offset on.
RECURSIVE ParseAnswers(_, _, _, _, _)
ParseAnswers(m, count, offset, answers, hi) ==
    IF count = 0
    THEN [ status |-> "returned", answers |-> answers, offset |-> offset,
           hi |-> hi ]
    ELSE LET r == DNSAnswer_parse(m, offset) IN
         IF r.status # "returned"
         THEN [ status |-> "diverges", answers |-> answers,
                offset |-> offset, hi |-> Max(hi, r.hi) ]
         ELSE ParseAnswers(m, count - 1, r.offset, Append(answers, r.answer),
                           Max(hi, r.hi))

\* The message a receiver decodes from bytes: the header, qdcount questions,
\* then ancount answers.
Decoded(bytes) ==
    LET m == [bytes |-> bytes, beyond |-> 0]
        h == DNSHeader_parse(m)
        qs == ParseQuestions(m, h.qdcount, 12, <<>>, 11)
        as == IF qs.status = "returned"
              THEN ParseAnswers(m, h.ancount, qs.offset, <<>>, qs.hi)
              ELSE [ status |-> "diverges", answers |-> <<>>,
                     offset |-> qs.offset, hi |-> qs.hi ]
    IN [ status |-> as.status, header |-> h, questions |-> qs.questions,
         answers |-> as.answers, offset |-> as.offset, hi |-> as.hi ]

\* The encoding of name holds no compression pointer.
SpelledOut(name) ==
    ~parseDomainName([bytes |-> encodeDomainName(name), beyond |-> 0],
                     0).jumped

\* C22: the bytes of every response sent decode, header then qdcount
\* questions then ancount answers, to the message that was serialized, using
\* all the bytes and none past them, and no name in them is compressed.
C22_ResponseRoundTrip ==
    pc = "sent" =>
        LET d == Decoded(toClient) IN
        /\ d.status = "returned"
        /\ d.header = response.header
        /\ d.questions = response.questions
        /\ d.answers = response.answers
        /\ d.offset = Len(toClient)
        /\ d.hi < Len(toClient)
        /\ \A i \in 1..Len(response.questions) :
              SpelledOut(response.questions[i].name)
        /\ \A i \in 1..Len(response.answers) :
              SpelledOut(response.answers[i].name)

\* C23: every answer of a response has rdlength equal to the number of bytes
\* of its rdata, so the rdlength serialized is the number of rdata bytes
\* serialized after it.
C23_RdlengthMatches ==
    \A i \in 1..Len(response.answers) :
        /\ response.answers[i].rdlength = Len(response.answers[i].rdata)
        /\ Len(DNSAnswer_serialize(response.answers[i])) =
              Len(encodeDomainName(response.answers[i].name)) + 10
                  + response.answers[i].rdlength

\* C24: after the sendto of a response, failed or not, main is back in
\* recvfrom with the listening socket open; when that recvfrom fails main
\* leaves the loop and closes the listening socket, and then takes no further
\* step: the socket is closed exactly when main has exited.
C24_SendAndReceiveFailures ==
    /\ [](udpSocket = "closed" <=> pc = "exited")
    /\ [][ /\ pc = "sent" =>
                (pc' = "recvfrom" /\ udpSocket' = "open" /\ nreq' = nreq)
           /\ pc' = "exited" =>
                (pc = "recvfrom" /\ bytesRead' = -1 /\ nreq' = nreq)
           /\ pc # "exited" ]_vars

\* The sendto of the first response failed, and a second datagram has been
\* received and its first question answered.
C24_Witness ==
    /\ nreq = 2
    /\ sendResult = "failed"
    /\ pc = "questions"
    /\ qi = 2
    /\ Len(response.answers) = 1
    /\ udpSocket = "open"

\* Questions of this request whose sub-query was handed to sendto
\* successfully: those of the calls of forwardQuery that got as far as
\* recvfrom, and the one of the call in progress.
Forwarded ==
    { i \in 1..Len(fromResolver) : fromResolver[i].how \in {"recvfrom", "reply"} }
    \cup (IF pc = "resolver" THEN {qi} ELSE {})

RECURSIVE NameEnd(_, _)
NameEnd(d, pos) ==
    LET b == IF pos < Len(d) THEN d[pos + 1] ELSE 0 IN
    IF b = 0 THEN pos + 1
    ELSE IF b >= 192 THEN pos + 2
    ELSE NameEnd(d, pos + 1 + b)
RECURSIVE QuestionsEnd(_, _, _)
QuestionsEnd(d, count, pos) ==
    IF count = 0 THEN pos
    ELSE QuestionsEnd(d, count - 1, NameEnd(d, pos) + 4)

\* C26: the answer forwardQuery takes from a reply with ancount > 0 is the
\* record that starts right after the reply's own qdcount questions, counted
\* from offset 12: the first record of the answer section, whatever ancount
\* is.
C26_FirstAnswer ==
    \A i \in 1..Len(response.answers) :
        (resolverIp # "" /\ fromResolver[i].how = "reply") =>
            LET d == fromResolver[i].datagram
                qdcount == (d[5] * 256) + d[6]
                ancount == (d[7] * 256) + d[8]
                first == QuestionsEnd(d, qdcount, 12)
            IN /\ ancount > 0 =>
                    \E junk \in GarbageBytes :
                        response.answers[i] =
                            DNSAnswer_parse(StoredReply(d, junk), first).answer
               /\ d = ReplyA => response.answers[i].rdata = <<1, 2, 3, 4>>
               /\ d = ReplyB => response.answers[i].rdata = <<5, 6, 7, 8>>
               /\ d = ReplyTwoQuestions =>
                    /\ first = 28
                    /\ response.answers[i].rdata = <<7, 7, 7, 7>>
                    /\ response.answers[i].name = NameAbC

\* A reply announcing two answers and a reply with two questions have each
\* given one answer to a response.
C26_Witness ==
    /\ pc = "sent"
    /\ Len(fromResolver) = 2
    /\ fromResolver[1] = Replied(ReplyB)
    /\ fromResolver[2] = Replied(ReplyTwoQuestions)
    /\ response.answers[1].rdata = <<5, 6, 7, 8>>
    /\ response.answers[2].rdata = <<7, 7, 7, 7>>

\* C27: when every round-trip with the resolver ends, every datagram received
\* leads to its response being handed to sendto, after which main is back in
\* recvfrom.
C27_EventuallyAnswered ==
    /\ \A n \in 1..MaxRequests :
          (nreq = n /\ pc # "recvfrom" /\ pc # "exited")
              ~> (nreq = n /\ pc = "sent")
    /\ (pc = "sent") ~> (pc = "recvfrom")

\* C28: an iteration of parseDomainName appends a label of at most 63 bytes
\* (with its '.', at most 64 bytes), and on a length byte of 64..191 it
\* appends nothing to the name: such a byte is not consumed as a label.
C28_LabelLengths ==
    [][ nPc = "loop" =>
          /\ Len(nSt'.name) - Len(nSt.name) <= 64
          /\ At(nMem, nSt.currentPos) \in 64..191 =>
                (nSt'.name = nSt.name /\ nPc' # "returned") ]_vars

\* C29: whatever the size of the datagram recvfrom stored, the index
\* bytesRead at which main writes the terminator is an index of buffer.
C29_TerminatorInBuffer ==
    (nreq > 0 /\ bytesRead >= 0) => bytesRead < BufSize

\* C30: a forward socket is open exactly while main waits in the recvfrom of
\* forwardQuery for the reply to one sub-query: it is closed when forwardQuery
\* returns, on a failed sendto, a failed recvfrom or a reply, so none is open
\* when the response is sent, between requests or after main has exited, and
\* each sub-query is sent on a socket created when none was open.
C30_ForwardSocketClosed ==
    /\ forwardSocket \in {"open", "closed"}
    /\ forwardSocket = "open" <=> pc = "resolver"
    /\ pc \in {"recvfrom", "questions", "sent", "exited"} =>
          forwardSocket = "closed"
    /\ pc = "resolver" => Len(toResolver) = SubQueries(Len(fromResolver)) + 1

\* A response has been sent for a request whose first sub-query could not be
\* sent and whose second was answered.
C30_Witness ==
    /\ pc = "sent"
    /\ Len(fromResolver) = 2
    /\ fromResolver[1].how = "sendto"
    /\ fromResolver[2].how = "reply"
    /\ forwardSocket = "closed"
    /\ nreq = 2

====
